---- MODULE Spec2Model ----
(***************************************************************************)
(* A model of the go-memory-pattern examples: the Student record, the      *)
(* value / pointer / slice operations of values-vs-pointers.go, the        *)
(* averaging functions of the stack-vs-heap file and the run of main in    *)
(* escape-analysis.go.                                                     *)
(*                                                                         *)
(* Memory is explicit.  Every Student variable is a cell of mem, a pointer *)
(* is the address of a cell (NIL for nil), a by-value parameter is a fresh *)
(* cell that receives a copy of the argument and is released on return.    *)
(* A slice is a header [arr, len, cap] over a backing array held in arrs.  *)
(*                                                                         *)
(* float64 grades: every grade the model uses is a multiple of 0.5 far     *)
(* below 2^53, on which float64 addition is exact; a grade is stored as    *)
(* the integer 2 * grade.  A quotient is kept as the reduced fraction of   *)
(* its exact value (the float64 result is a function of that value), and   *)
(* 0.0 / 0.0 is NaN.                                                       *)
(***************************************************************************)
EXTENDS Integers, Sequences, FiniteSets, TLC

VARIABLES
    mem,            \* address -> Student: the live Student variables
    ptr1, ptr2,     \* the caller's two *Student variables
    grades,         \* the caller's []float64 variable (a slice header)
    class,          \* the caller's []Student variable (a slice header)
    arrs,           \* array id -> backing array (its length is the capacity)
    inserted,       \* history: the students passed to addStudentToClass so far
    call,           \* history: the last call, its arguments and its result
    pre,            \* history: what the caller could observe before that call
    out,            \* what has been printed (by the last call / by main so far)
    ncalls,         \* number of calls made
    demo,           \* which example runs: "records", "slices" or "main"
    pc,             \* main: the source line of the next statement (0: not running)
    globalStudent,  \* main: the package-level *Student
    locals,         \* main: function name -> the variables of its running call
    log             \* main: history of the calls made and the loop iterations run

vars == <<mem, ptr1, ptr2, grades, class, arrs, inserted, call, pre, out,
          ncalls, demo, pc, globalStudent, locals, log>>

mainVars == <<pc, globalStudent, locals, log>>

-----------------------------------------------------------------------------
(* Bounds of the model *)

MaxCalls == 3       \* calls made in one behaviour of Spec
NumCells == 2       \* Student variables the caller holds in Spec
MaxInitLen == 2     \* longest []float64 the caller starts with

-----------------------------------------------------------------------------
(* Values *)

NIL == 0

\* a float64 literal with an integral value
G(x) == 2 * x

Student(id, name, grade, age) ==
    [ID |-> id, Name |-> name, Grade |-> grade, Age |-> age]

ZeroStudent == Student(0, "", 0, 0)

RECURSIVE GCD(_, _)
GCD(a, b) == IF b = 0 THEN a ELSE GCD(b, a % b)

NaN == <<0, 0>>

\* total / n on float64, total a stored grade sum and n a count
FloatDiv(total, n) ==
    IF n = 0
    THEN NaN
    ELSE LET d == GCD(total, 2 * n) IN <<total \div d, (2 * n) \div d>>

FloatZero == <<0, 1>>

\* a run-time panic in place of a result
Panic == <<"panic">>

\* the result of a function that returns nothing
NoValue == <<>>

-----------------------------------------------------------------------------
(* Memory: cells and parameter passing *)

Fresh(m) == IF DOMAIN m = {} THEN 1
            ELSE (CHOOSE a \in DOMAIN m : \A b \in DOMAIN m : b <= a) + 1

\* a new variable at address p initialised with the value v
Bind(m, p, v) == [a \in DOMAIN m \cup {p} |-> IF a = p THEN v ELSE m[a]]

\* the variables ps go out of scope
Release(m, ps) == [a \in DOMAIN m \ ps |-> m[a]]

Result(m, o, r) == [mem |-> m, out |-> o, ret |-> r]

Printed(fn, v) == [fn |-> fn, val |-> v]

-----------------------------------------------------------------------------
(* values-vs-pointers.go: value operations.  The argument is the caller's  *)
(* variable at address a (every call site passes a variable).              *)

\* a by-value parameter that would share the argument's cell
modifyStudentValueAliased(m, a) ==
    LET m1 == [m EXCEPT ![a].Grade = G(100)]
        m2 == [m1 EXCEPT ![a].Name = "Modified " \o m1[a].Name]
    IN  Result(m2, <<Printed("modifyStudentValue", m2[a])>>, NoValue)

modifyStudentValue(m, a) ==
    LET student == Fresh(m)
        m0 == Bind(m, student, m[a])
        m1 == [m0 EXCEPT ![student].Grade = G(100)]
        m2 == [m1 EXCEPT ![student].Name = "Modified " \o m1[student].Name]
    IN  Result(Release(m2, {student}),
               <<Printed("modifyStudentValue", m2[student])>>, NoValue)

\* a copy that forgets to replace the ID
createStudentCopyKeepsID(m, a, newName, newID) ==
    LET template == Fresh(m)
        newStudent == template + 1
        m0 == Bind(m, template, m[a])
        m1 == Bind(m0, newStudent, m0[template])
        m2 == [m1 EXCEPT ![newStudent].Name = newName]
    IN  Result(Release(m2, {template, newStudent}), <<>>, m2[newStudent])

createStudentCopy(m, a, newName, newID) ==
    LET template == Fresh(m)
        newStudent == template + 1
        m0 == Bind(m, template, m[a])
        m1 == Bind(m0, newStudent, m0[template])
        m2 == [m1 EXCEPT ![newStudent].Name = newName]
        m3 == [m2 EXCEPT ![newStudent].ID = newID]
    IN  Result(Release(m3, {template, newStudent}), <<>>, m3[newStudent])

(* escape-analysis.go: the by-value callee of staysOnStack3 *)
processStudent(m, a) ==
    LET s == Fresh(m)
        m0 == Bind(m, s, m[a])
        m1 == [m0 EXCEPT ![s].Grade = @ + G(10)]
    IN  Result(Release(m1, {s}), <<Printed("processStudent", m1[s])>>, NoValue)

-----------------------------------------------------------------------------
(* values-vs-pointers.go: pointer operations.  student is an address or NIL *)

\* a pointer receiver that mutates a private copy of the pointee
modifyStudentPointerOnCopy(m, student) ==
    IF student = NIL
    THEN Result(m, <<>>, NoValue)
    ELSE LET r == modifyStudentValue(m, student)
         IN  Result(r.mem, <<Printed("modifyStudentPointer", r.out[1].val)>>, NoValue)

\* a mutation that also resets the age
modifyStudentPointerClobbersAge(m, student) ==
    IF student = NIL
    THEN Result(m, <<>>, NoValue)
    ELSE LET m1 == [m EXCEPT ![student] = Student(@.ID, @.Name, G(100), 0)]
             m2 == [m1 EXCEPT ![student].Name = "Modified " \o m1[student].Name]
         IN  Result(m2, <<Printed("modifyStudentPointer", m2[student])>>, NoValue)

modifyStudentPointer(m, student) ==
    IF student = NIL
    THEN Result(m, <<>>, NoValue)
    ELSE LET m1 == [m EXCEPT ![student].Grade = G(100)]
             m2 == [m1 EXCEPT ![student].Name = "Modified " \o m1[student].Name]
         IN  Result(m2, <<Printed("modifyStudentPointer", m2[student])>>, NoValue)

\* a guard written with && : it returns early only if all three are nil, and
\* the first nil dereferenced stops the program
calculateGPAPointerGuardAnd(m, student1, student2, student3) ==
    IF student1 = NIL /\ student2 = NIL /\ student3 = NIL
    THEN Result(m, <<>>, FloatZero)
    ELSE IF student1 = NIL \/ student2 = NIL \/ student3 = NIL
    THEN Result(m, <<>>, Panic)
    ELSE LET total == m[student1].Grade + m[student2].Grade + m[student3].Grade
         IN  Result(m, <<>>, FloatDiv(total, 3))

calculateGPAPointer(m, student1, student2, student3) ==
    IF student1 = NIL \/ student2 = NIL \/ student3 = NIL
    THEN Result(m, <<>>, FloatZero)
    ELSE LET total == m[student1].Grade + m[student2].Grade + m[student3].Grade
         IN  Result(m, <<>>, FloatDiv(total, 3))

updateGradeInPlace(m, student, newGrade) ==
    IF student = NIL
    THEN Result(m, <<>>, NoValue)
    ELSE Result([m EXCEPT ![student].Grade = newGrade], <<>>, NoValue)

\* ptr.Grade = g, the assignment through a pointer variable
assignGradeVia(m, ptr, g) == [m EXCEPT ![ptr].Grade = g]

-----------------------------------------------------------------------------
(* Slices *)

NilSlice == [arr |-> NIL, len |-> 0, cap |-> 0]

\* the elements a slice header h denotes in the array store s
Elems(s, h) == IF h.len = 0 THEN <<>> ELSE SubSeq(s[h.arr], 1, h.len)

FreshArr(s) == IF DOMAIN s = {} THEN 1
               ELSE (CHOOSE a \in DOMAIN s : \A b \in DOMAIN s : b <= a) + 1

\* make(T, len, cap): a new backing array of cap zero values
make(s, zero, len, cap) ==
    LET id == FreshArr(s)
    IN  [arrs |-> [a \in DOMAIN s \cup {id} |->
                      IF a = id THEN [i \in 1..cap |-> zero] ELSE s[a]],
         hdr |-> [arr |-> id, len |-> len, cap |-> cap]]

\* The capacity append gives the new array when the slice is full is the
\* runtime's choice; the language only requires room for the new element.
\* Two policies bracket it: an exact fit, and doubling the old capacity.
GrowthPolicies == {"exact", "double"}

NewCap(policy, h) ==
    IF policy = "double" /\ 2 * h.cap > h.len + 1 THEN 2 * h.cap ELSE h.len + 1

\* append(h, v) under a growth policy
append(s, h, v, zero, policy) ==
    IF h.len < h.cap
    THEN [arrs |-> [s EXCEPT ![h.arr][h.len + 1] = v],
          hdr |-> [h EXCEPT !.len = h.len + 1]]
    ELSE LET id == FreshArr(s)
             old == Elems(s, h)
             newcap == NewCap(policy, h)
         IN  [arrs |-> [a \in DOMAIN s \cup {id} |->
                           IF a = id
                           THEN [i \in 1..newcap |->
                                    IF i <= h.len THEN old[i]
                                    ELSE IF i = h.len + 1 THEN v ELSE zero]
                           ELSE s[a]],
              hdr |-> [arr |-> id, len |-> h.len + 1, cap |-> newcap]]

\* the arrays still reachable from the headers hs
Reachable(s, hs) == [a \in {h.arr : h \in hs} \ {NIL} |-> s[a]]

-----------------------------------------------------------------------------
(* values-vs-pointers.go: slice operations *)

\* for i := range g { g[i] += 5.0 }, from index i (1-based) on
RECURSIVE BonusLoop(_, _, _)
BonusLoop(s, g, i) ==
    IF i > g.len THEN s
    ELSE BonusLoop([s EXCEPT ![g.arr][i] = @ + G(5)], g, i + 1)

\* a callee that works on its own copy of the elements
modifyGradesSliceOnCopy(s, h) ==
    LET c == make(s, 0, h.len, h.len)
        s1 == [c.arrs EXCEPT ![c.hdr.arr] = Elems(s, h)]
        s2 == BonusLoop(s1, c.hdr, 1)
    IN  [arrs |-> Reachable(s2, {h}),
         out |-> <<Printed("modifyGradesSlice", Elems(s2, c.hdr))>>]

\* the parameter is a copy of the header h; the backing array is shared
modifyGradesSlice(s, h) ==
    LET g == h
        s1 == BonusLoop(s, g, 1)
    IN  [arrs |-> s1, out |-> <<Printed("modifyGradesSlice", Elems(s1, g))>>]

\* an append whose result is dropped (students = append(students, ...) on a copy)
addStudentToClassDropped(s, h, newStudent, policy) ==
    [arrs |-> s, hdr |-> h]

\* *students = append(*students, newStudent); h is the caller's header
addStudentToClass(s, h, newStudent, policy) ==
    append(s, h, newStudent, ZeroStudent, policy)

-----------------------------------------------------------------------------
(* The averaging functions.  students is the header of the caller's        *)
(* []Student in the store s; each takes the header by value and only reads *)
(* the elements.  fs is the callee's own store of []float64 arrays.        *)

NoArrays == [a \in {} |-> <<>>]

\* for _, student := range students { total += student.Grade }
RECURSIVE SumGradesLoop(_, _, _)
SumGradesLoop(studs, i, total) ==
    IF i > Len(studs) THEN total
    ELSE LET student == studs[i]      \* the range variable is a copy
         IN  SumGradesLoop(studs, i + 1, total + student.Grade)

\* for _, student := range students { grades = append(grades, student.Grade) }
RECURSIVE CollectGradesLoop(_, _, _, _, _)
CollectGradesLoop(studs, i, fs, g, policy) ==
    IF i > Len(studs) THEN [arrs |-> fs, hdr |-> g]
    ELSE LET student == studs[i]
             r == append(fs, g, student.Grade, 0, policy)
         IN  CollectGradesLoop(studs, i + 1, r.arrs, r.hdr, policy)

\* for _, grade := range grades { total += grade }
RECURSIVE SumLoop(_, _, _)
SumLoop(gs, i, total) ==
    IF i > Len(gs) THEN total ELSE SumLoop(gs, i + 1, total + gs[i])

(* types.go (stack-vs-heap) *)
calculateAverageStack(s, students) ==
    LET studs == Elems(s, students)
        total == SumGradesLoop(studs, 1, 0)
        count == Len(studs)            \* count++ once per iteration
    IN  IF count = 0 THEN FloatZero ELSE FloatDiv(total, count)

calculateAverageHeap(s, students, policy) ==
    LET studs == Elems(s, students)
        c == CollectGradesLoop(studs, 1, NoArrays, NilSlice, policy)
        total == SumLoop(Elems(c.arrs, c.hdr), 1, 0)
    IN  FloatDiv(total, c.hdr.len)

\* make([]float64, len(students)): a length where a capacity was meant
calculateAverageOptimizedMakeLen(s, students, policy) ==
    LET studs == Elems(s, students)
        m == make(NoArrays, 0, Len(studs), Len(studs))
        c == CollectGradesLoop(studs, 1, m.arrs, m.hdr, policy)
        total == SumLoop(Elems(c.arrs, c.hdr), 1, 0)
    IN  FloatDiv(total, c.hdr.len)

calculateAverageOptimized(s, students, policy) ==
    LET studs == Elems(s, students)
        m == make(NoArrays, 0, 0, Len(studs))
        c == CollectGradesLoop(studs, 1, m.arrs, m.hdr, policy)
        total == SumLoop(Elems(c.arrs, c.hdr), 1, 0)
    IN  FloatDiv(total, c.hdr.len)

(* escape-analysis.go *)
calculateAverageStacks(s, students) ==
    LET studs == Elems(s, students)
        total == SumGradesLoop(studs, 1, 0)
    IN  FloatDiv(total, students.len)

calculateAverageHeaps(s, students, policy) ==
    LET studs == Elems(s, students)
        c == CollectGradesLoop(studs, 1, NoArrays, NilSlice, policy)
        total == SumLoop(Elems(c.arrs, c.hdr), 1, 0)
    IN  FloatDiv(total, c.hdr.len)

-----------------------------------------------------------------------------
(* The callers of the examples: any sequence of at most MaxCalls calls on   *)
(* the caller's variables, with arguments as the demonstrate* functions    *)
(* pass them (a variable by value, the address of a variable, nil).        *)

Cells == 1..NumCells
Ptrs == {NIL} \cup Cells

\* the records of the demonstrate* functions, one per cell
OriginalLiterals == <<Student(1, "Alice", G(85), 20), Student(3, "Bob", G(78), 21),
                      Student(3, "Charlie", G(78), 19), Student(2, "Diana", G(91), 20)>>
\* grades of demonstrateSliceBehavior
GradeLiterals == <<G(85), G(92), G(78), G(88)>>
\* testStudents of main
TestStudents == <<Student(1, "Test1", G(85), 20), Student(2, "Test2", G(90), 21),
                  Student(3, "Test3", G(78), 19), Student(4, "Test4", G(88), 22),
                  Student(5, "Test5", G(92), 20)>>
\* the students demonstrateSliceBehavior adds to its class
NewStudents == {Student(1, "Charlie", G(82), 19), Student(2, "Diana", G(91), 20)}
NewNames == {"Alice Clone"}
NewIDs == {2}
NewGrades == {G(95)}

Observed == [mem |-> mem, grades |-> Elems(arrs, grades), class |-> Elems(arrs, class)]

NoCall == [op |-> "none", a |-> NIL, ptrs |-> <<>>, g |-> 0, name |-> "",
           id |-> 0, policy |-> "", ret |-> NoValue]

MainIdle ==
    /\ pc = 0
    /\ globalStudent = NIL
    /\ locals = <<>>
    /\ log = <<>>

NoHistory ==
    /\ inserted = Elems(arrs, class)
    /\ call = NoCall
    /\ pre = Observed
    /\ out = <<>>
    /\ ncalls = 0

\* the Student variables of the caller and two pointer variables
InitRecords ==
    /\ demo = "records"
    /\ mem = [a \in Cells |-> OriginalLiterals[a]]
    /\ ptr1 \in Ptrs
    /\ ptr2 \in Ptrs
    /\ arrs = NoArrays
    /\ grades = NilSlice
    /\ class = NilSlice

\* a []float64 and a []Student of the caller, nil or holding n and k elements
InitSlices ==
    /\ demo = "slices"
    /\ mem = [a \in {} |-> ZeroStudent]
    /\ ptr1 = NIL
    /\ ptr2 = NIL
    /\ \E n \in 0..MaxInitLen, k \in 0..MaxInitLen :
          LET g == IF n = 0 THEN [arrs |-> NoArrays, hdr |-> NilSlice]
                   ELSE LET m == make(NoArrays, 0, n, n)
                        IN  [m EXCEPT !.arrs[m.hdr.arr] = SubSeq(GradeLiterals, 1, n)]
              c == IF k = 0 THEN [arrs |-> g.arrs, hdr |-> NilSlice]
                   ELSE LET m == make(g.arrs, ZeroStudent, k, k)
                        IN  [m EXCEPT !.arrs[m.hdr.arr] = SubSeq(TestStudents, 1, k)]
          IN  /\ arrs = c.arrs
              /\ grades = g.hdr
              /\ class = c.hdr

Init ==
    /\ InitRecords \/ InitSlices
    /\ NoHistory
    /\ MainIdle

\* a call that touches only the Student cells
CellCall(c, r) ==
    /\ ncalls < MaxCalls
    /\ demo = "records"
    /\ mem' = r.mem
    /\ out' = r.out
    /\ call' = [c EXCEPT !.ret = r.ret]
    /\ pre' = Observed
    /\ ncalls' = ncalls + 1
    /\ UNCHANGED <<ptr1, ptr2, grades, class, arrs, inserted, demo, mainVars>>

CallModifyStudentValue ==
    \E a \in Cells :
        CellCall([NoCall EXCEPT !.op = "modifyStudentValue", !.a = a],
                 modifyStudentValue(mem, a))

CallProcessStudent ==
    \E a \in Cells :
        CellCall([NoCall EXCEPT !.op = "processStudent", !.a = a],
                 processStudent(mem, a))

CallCreateStudentCopy ==
    \E a \in Cells, newName \in NewNames, newID \in NewIDs :
        CellCall([NoCall EXCEPT !.op = "createStudentCopy", !.a = a,
                                !.name = newName, !.id = newID],
                 createStudentCopy(mem, a, newName, newID))

CallModifyStudentPointer ==
    \E p \in Ptrs :
        CellCall([NoCall EXCEPT !.op = "modifyStudentPointer", !.ptrs = <<p>>],
                 modifyStudentPointer(mem, p))

CallUpdateGradeInPlace ==
    \E p \in Ptrs, g \in NewGrades :
        CellCall([NoCall EXCEPT !.op = "updateGradeInPlace", !.ptrs = <<p>>, !.g = g],
                 updateGradeInPlace(mem, p, g))

\* calculateGPAPointer(ptr1, ptr2, p)
CallCalculateGPAPointer ==
    \E p \in Ptrs :
        CellCall([NoCall EXCEPT !.op = "calculateGPAPointer", !.ptrs = <<ptr1, ptr2, p>>],
                 calculateGPAPointer(mem, ptr1, ptr2, p))

\* ptr1.Grade = g
AssignViaPtr1 ==
    \E g \in NewGrades :
        /\ ptr1 # NIL
        /\ CellCall([NoCall EXCEPT !.op = "assignViaPtr1", !.ptrs = <<ptr1>>, !.g = g],
                    Result(assignGradeVia(mem, ptr1, g), <<>>, NoValue))

CallModifyGradesSlice ==
    /\ ncalls < MaxCalls
    /\ demo = "slices"
    /\ LET r == modifyGradesSlice(arrs, grades)
       IN  /\ arrs' = r.arrs
           /\ out' = r.out
    /\ call' = [NoCall EXCEPT !.op = "modifyGradesSlice"]
    /\ pre' = Observed
    /\ ncalls' = ncalls + 1
    /\ UNCHANGED <<mem, ptr1, ptr2, grades, class, inserted, demo, mainVars>>

CallAddStudentToClass ==
    \E newStudent \in NewStudents, policy \in GrowthPolicies :
        /\ ncalls < MaxCalls
        /\ demo = "slices"
        /\ LET r == addStudentToClass(arrs, class, newStudent, policy)
           IN  /\ arrs' = Reachable(r.arrs, {grades, r.hdr})
               /\ class' = r.hdr
        /\ inserted' = Append(inserted, newStudent)
        /\ call' = [NoCall EXCEPT !.op = "addStudentToClass", !.policy = policy]
        /\ pre' = Observed
        /\ out' = <<>>
        /\ ncalls' = ncalls + 1
        /\ UNCHANGED <<mem, ptr1, ptr2, grades, demo, mainVars>>

\* a call of one of the averaging functions on the caller's class
AverageCall(op, policy, ret) ==
    /\ ncalls < MaxCalls
    /\ demo = "slices"
    /\ call' = [NoCall EXCEPT !.op = op, !.policy = policy, !.ret = ret]
    /\ pre' = Observed
    /\ out' = <<>>
    /\ ncalls' = ncalls + 1
    /\ UNCHANGED <<mem, ptr1, ptr2, grades, class, arrs, inserted, demo, mainVars>>

CallCalculateAverageStack ==
    AverageCall("calculateAverageStack", "", calculateAverageStack(arrs, class))

CallCalculateAverageHeap ==
    \E policy \in GrowthPolicies :
        AverageCall("calculateAverageHeap", policy,
                    calculateAverageHeap(arrs, class, policy))

CallCalculateAverageOptimized ==
    \E policy \in GrowthPolicies :
        AverageCall("calculateAverageOptimized", policy,
                    calculateAverageOptimized(arrs, class, policy))

CallCalculateAverageStacks ==
    AverageCall("calculateAverageStacks", "", calculateAverageStacks(arrs, class))

CallCalculateAverageHeaps ==
    \E policy \in GrowthPolicies :
        AverageCall("calculateAverageHeaps", policy,
                    calculateAverageHeaps(arrs, class, policy))

Next ==
    \/ CallModifyStudentValue
    \/ CallProcessStudent
    \/ CallCreateStudentCopy
    \/ CallModifyStudentPointer
    \/ CallUpdateGradeInPlace
    \/ CallCalculateGPAPointer
    \/ AssignViaPtr1
    \/ CallModifyGradesSlice
    \/ CallAddStudentToClass
    \/ CallCalculateAverageStack
    \/ CallCalculateAverageHeap
    \/ CallCalculateAverageOptimized
    \/ CallCalculateAverageStacks
    \/ CallCalculateAverageHeaps

Spec == Init /\ [][Next]_vars

-----------------------------------------------------------------------------
(* escape-analysis.go: the run of main, one step per statement.  pc is the *)
(* source line of the next statement.  A Student variable is a cell of mem *)
(* and the frame holds its address; a variable lives as long as it can     *)
(* still be reached, so a return releases the callee's cells that neither  *)
(* the global nor a caller's pointer refers to.                            *)

NoFrame == [v \in {} |-> 0]

Declared(fn, v) == fn \in DOMAIN locals /\ v \in DOMAIN locals[fn]
Var(fn, v) == locals[fn][v]

\* the frames after fn's variable v is declared or assigned x
SetVar(ls, fn, v, x) == [ls EXCEPT ![fn] = (v :> x) @@ @]
Push(ls, fn, frame) == (fn :> frame) @@ ls
Pop(ls, fn) == [f \in DOMAIN ls \ {fn} |-> ls[f]]

\* the *Student variables of the program besides the global
PointerVars == {<<"main", "heapStudent">>}

Roots(g, ls) ==
    ({g} \cup {ls[x[1]][x[2]] : x \in {y \in PointerVars :
                   y[1] \in DOMAIN ls /\ y[2] \in DOMAIN ls[y[1]]}}) \ {NIL}

\* the slice variables of main
SliceVars(ls) ==
    IF "main" \in DOMAIN ls /\ "testStudents" \in DOMAIN ls["main"]
    THEN {ls["main"]["testStudents"]} ELSE {}

\* the cells left when a call that owned the cells `owned` returns
ReturnCells(m, owned, roots) == Release(m, owned \ roots)

Called(fn) == [at |-> fn, elem |-> 0]
Iterated(loop, i) == [at |-> "range " \o loop, elem |-> i]
Wrote(v) == [at |-> "write " \o v, elem |-> 0]

\* the statement at `line` is the next one; the variables of the other
\* examples are not part of this program
At(line) ==
    /\ demo = "main"
    /\ pc = line
    /\ UNCHANGED <<ptr1, ptr2, grades, class, inserted, call, pre, ncalls, demo>>

\* a statement that only prints
PrintStmt(line, next, text) ==
    /\ At(line)
    /\ out' = Append(out, text)
    /\ pc' = next
    /\ UNCHANGED <<mem, arrs, globalStudent, locals, log>>

\* the call statement at `line` of a function whose body starts at `entry`
CallStmt(line, entry, fn, frame, m) ==
    /\ At(line)
    /\ locals' = Push(locals, fn, frame)
    /\ mem' = m
    /\ log' = Append(log, Called(fn))
    /\ pc' = entry
    /\ UNCHANGED <<arrs, globalStudent, out>>

\* student := Student{...} in fn
DeclareStudent(line, next, fn, v, lit) ==
    /\ At(line)
    /\ LET a == Fresh(mem)
       IN  /\ mem' = Bind(mem, a, lit)
           /\ locals' = SetVar(locals, fn, v, a)
    /\ pc' = next
    /\ UNCHANGED <<arrs, globalStudent, out, log>>

\* the return of fn, which owned the Student cells `owned`, to line `next`;
\* ls are the frames the return leaves (the result already assigned)
ReturnStmt(line, next, owned, ls) ==
    /\ At(line)
    /\ locals' = ls
    /\ mem' = ReturnCells(mem, owned, Roots(globalStudent, ls))
    /\ arrs' = Reachable(arrs, SliceVars(ls))
    /\ pc' = next
    /\ UNCHANGED <<globalStudent, out, log>>

(* the functions main calls *)

StaysOnStack1 ==
    \/ DeclareStudent(14, 22, "staysOnStack1", "student",
                      Student(1, "Alice", 171, 20))             \* Grade: 85.5
    \/ PrintStmt(22, 23, Printed("staysOnStack1",
                <<mem[Var("staysOnStack1", "student")].Name,
                  mem[Var("staysOnStack1", "student")].Grade>>))
    \/ ReturnStmt(23, 149, {Var("staysOnStack1", "student")},
                  Pop(locals, "staysOnStack1"))

StaysOnStack2 ==
    \/ DeclareStudent(27, 34, "staysOnStack2", "student",
                      Student(2, "Bob", G(92), 19))
    \/ \* return student; stackStudent receives a copy
       /\ At(34)
       /\ LET a == Fresh(mem)
              m == Bind(mem, a, mem[Var("staysOnStack2", "student")])
              ls == SetVar(Pop(locals, "staysOnStack2"), "main", "stackStudent", a)
          IN  /\ locals' = ls
              /\ mem' = ReturnCells(m, {Var("staysOnStack2", "student")},
                                    Roots(globalStudent, ls))
       /\ pc' = 150
       /\ UNCHANGED <<arrs, globalStudent, out, log>>

ProcessStudent ==
    \/ \* s.Grade += 10
       /\ At(50)
       /\ mem' = [mem EXCEPT ![Var("processStudent", "s")].Grade = @ + G(10)]
       /\ pc' = 51
       /\ UNCHANGED <<arrs, globalStudent, locals, out, log>>
    \/ PrintStmt(51, 52, Printed("processStudent", mem[Var("processStudent", "s")]))
    \/ ReturnStmt(52, 45, {Var("processStudent", "s")}, Pop(locals, "processStudent"))

StaysOnStack3 ==
    \/ DeclareStudent(39, 42, "staysOnStack3", "student",
                      Student(3, "Charlie", G(78), 21))
    \/ \* processStudent(student): the parameter s is a copy
       LET s == Fresh(mem)
       IN  CallStmt(42, 50, "processStudent", "s" :> s,
                    Bind(mem, s, mem[Var("staysOnStack3", "student")]))
    \/ PrintStmt(45, 46, Printed("staysOnStack3", mem[Var("staysOnStack3", "student")]))
    \/ ReturnStmt(46, 154, {Var("staysOnStack3", "student")},
                  Pop(locals, "staysOnStack3"))

EscapesToHeap1 ==
    \/ DeclareStudent(60, 68, "escapesToHeap1", "student",
                      Student(4, "Diana", G(95), 20))
    \/ \* return &student; heapStudent receives the pointer
       ReturnStmt(68, 156, {Var("escapesToHeap1", "student")},
                  SetVar(Pop(locals, "escapesToHeap1"), "main", "heapStudent",
                         Var("escapesToHeap1", "student")))

EscapesToHeap2 ==
    \/ DeclareStudent(73, 81, "escapesToHeap2", "student",
                      Student(5, "Eve", G(88), 22))
    \/ PrintStmt(81, 82, Printed("escapesToHeap2", mem[Var("escapesToHeap2", "student")]))
    \/ ReturnStmt(82, 160, {Var("escapesToHeap2", "student")},
                  Pop(locals, "escapesToHeap2"))

\* largeData is kept as its elements that differ from zero
EscapesToHeap3 ==
    \/ /\ At(87)
       /\ locals' = SetVar(locals, "escapesToHeap3", "largeData", NoFrame)
       /\ pc' = 88
       /\ UNCHANGED <<mem, arrs, globalStudent, out, log>>
    \/ /\ At(88)
       /\ locals' = SetVar(locals, "escapesToHeap3", "largeData",
                           (0 :> 42) @@ Var("escapesToHeap3", "largeData"))
       /\ pc' = 89
       /\ UNCHANGED <<mem, arrs, globalStudent, out, log>>
    \/ PrintStmt(89, 90, Printed("escapesToHeap3",
                    IF 0 \in DOMAIN Var("escapesToHeap3", "largeData")
                    THEN Var("escapesToHeap3", "largeData")[0] ELSE 0))
    \/ ReturnStmt(90, 162, {}, Pop(locals, "escapesToHeap3"))

\* globalStudent = &student that leaves the global as it was
StoreGlobalStudentSkipped ==
    /\ At(103)
    /\ pc' = 104
    /\ UNCHANGED <<globalStudent, mem, arrs, locals, out, log>>

\* globalStudent = &student
StoreGlobalStudent ==
    /\ At(103)
    /\ globalStudent' = Var("escapesToHeap4", "student")
    /\ log' = Append(log, Wrote("globalStudent"))
    /\ pc' = 104
    /\ UNCHANGED <<mem, arrs, locals, out>>

EscapesToHeap4 ==
    \/ DeclareStudent(96, 103, "escapesToHeap4", "student",
                      Student(6, "Frank", G(82), 23))
    \/ StoreGlobalStudent
    \/ ReturnStmt(104, 163, {Var("escapesToHeap4", "student")},
                  Pop(locals, "escapesToHeap4"))

(* the two averaging functions of this file, statement by statement *)

\* a range loop header that advances by two elements
RangeStudentsSkipping(line, body, exit, fn) ==
    /\ At(line)
    /\ LET i == IF Declared(fn, "i") THEN Var(fn, "i") ELSE 0
           students == Var(fn, "students")
           student == IF Declared(fn, "student") THEN Var(fn, "student") ELSE Fresh(mem)
       IN  IF i < students.len
           THEN /\ mem' = Bind(mem, student, arrs[students.arr][i + 1])
                /\ locals' = SetVar(SetVar(locals, fn, "student", student), fn, "i", i + 2)
                /\ log' = Append(log, Iterated("students in " \o fn, i))
                /\ pc' = body
           ELSE /\ pc' = exit
                /\ UNCHANGED <<mem, locals, log>>
    /\ UNCHANGED <<arrs, globalStudent, out>>

\* for _, student := range students: i counts the iterations started, the
\* range variable receives a copy of the element
RangeStudents(line, body, exit, fn) ==
    /\ At(line)
    /\ LET i == IF Declared(fn, "i") THEN Var(fn, "i") ELSE 0
           students == Var(fn, "students")
           student == IF Declared(fn, "student") THEN Var(fn, "student") ELSE Fresh(mem)
       IN  IF i < students.len
           THEN /\ mem' = Bind(mem, student, arrs[students.arr][i + 1])
                /\ locals' = SetVar(SetVar(locals, fn, "student", student), fn, "i", i + 1)
                /\ log' = Append(log, Iterated("students in " \o fn, i))
                /\ pc' = body
           ELSE /\ pc' = exit
                /\ UNCHANGED <<mem, locals, log>>
    /\ UNCHANGED <<arrs, globalStudent, out>>

\* var total float64
DeclareTotal(line, next, fn) ==
    /\ At(line)
    /\ locals' = SetVar(locals, fn, "total", 0)
    /\ pc' = next
    /\ UNCHANGED <<mem, arrs, globalStudent, out, log>>

\* return total / float64(n), assigned to main's variable v
ReturnAverage(line, next, fn, n, v) ==
    ReturnStmt(line, next,
               IF Declared(fn, "student") THEN {Var(fn, "student")} ELSE {},
               SetVar(Pop(locals, fn), "main", v, FloatDiv(Var(fn, "total"), n)))

CalculateAverageStacks ==
    \/ DeclareTotal(112, 115, "calculateAverageStacks")
    \/ RangeStudents(115, 116, 119, "calculateAverageStacks")
    \/ \* total += student.Grade
       /\ At(116)
       /\ locals' = SetVar(locals, "calculateAverageStacks", "total",
                           Var("calculateAverageStacks", "total")
                           + mem[Var("calculateAverageStacks", "student")].Grade)
       /\ pc' = 115
       /\ UNCHANGED <<mem, arrs, globalStudent, out, log>>
    \/ ReturnAverage(119, 178, "calculateAverageStacks",
                     Var("calculateAverageStacks", "students").len, "stackAvg")

CalculateAverageHeaps ==
    \/ \* var grades []float64
       /\ At(124)
       /\ locals' = SetVar(locals, "calculateAverageHeaps", "grades", NilSlice)
       /\ pc' = 126
       /\ UNCHANGED <<mem, arrs, globalStudent, out, log>>
    \/ RangeStudents(126, 127, 130, "calculateAverageHeaps")
    \/ \* grades = append(grades, student.Grade)
       \E policy \in GrowthPolicies :
           /\ At(127)
           /\ LET r == append(arrs, Var("calculateAverageHeaps", "grades"),
                              mem[Var("calculateAverageHeaps", "student")].Grade, 0, policy)
              IN  /\ locals' = SetVar(locals, "calculateAverageHeaps", "grades", r.hdr)
                  /\ arrs' = Reachable(r.arrs, SliceVars(locals) \cup {r.hdr})
           /\ pc' = 126
           /\ UNCHANGED <<mem, globalStudent, out, log>>
    \/ DeclareTotal(130, 131, "calculateAverageHeaps")
    \/ \* for _, grade := range grades: j counts the iterations started
       /\ At(131)
       /\ LET j == IF Declared("calculateAverageHeaps", "j")
                   THEN Var("calculateAverageHeaps", "j") ELSE 0
              g == Var("calculateAverageHeaps", "grades")
          IN  IF j < g.len
              THEN /\ locals' = SetVar(SetVar(locals, "calculateAverageHeaps", "grade",
                                              arrs[g.arr][j + 1]),
                                       "calculateAverageHeaps", "j", j + 1)
                   /\ log' = Append(log, Iterated("grades", j))
                   /\ pc' = 132
              ELSE /\ pc' = 135
                   /\ UNCHANGED <<locals, log>>
       /\ UNCHANGED <<mem, arrs, globalStudent, out>>
    \/ \* total += grade
       /\ At(132)
       /\ locals' = SetVar(locals, "calculateAverageHeaps", "total",
                           Var("calculateAverageHeaps", "total")
                           + Var("calculateAverageHeaps", "grade"))
       /\ pc' = 131
       /\ UNCHANGED <<mem, arrs, globalStudent, out, log>>
    \/ ReturnAverage(135, 180, "calculateAverageHeaps",
                     Var("calculateAverageHeaps", "grades").len, "heapAvg")

(* main *)

Main ==
    \/ PrintStmt(143, 144, Printed("main", "Go Escape Analysis Examples"))
    \/ PrintStmt(144, 146, Printed("main", "==========================="))
    \/ PrintStmt(146, 147, Printed("main", "--- Variables That STAY ON STACK ---"))
    \/ CallStmt(147, 14, "staysOnStack1", NoFrame, mem)
    \/ CallStmt(149, 27, "staysOnStack2", NoFrame, mem)
    \/ PrintStmt(150, 152, Printed("main", <<mem[Var("main", "stackStudent")].Name,
                                             mem[Var("main", "stackStudent")].Grade>>))
    \/ CallStmt(152, 39, "staysOnStack3", NoFrame, mem)
    \/ PrintStmt(154, 155, Printed("main", "--- Variables That ESCAPE TO HEAP ---"))
    \/ CallStmt(155, 60, "escapesToHeap1", NoFrame, mem)
    \/ PrintStmt(156, 158, Printed("main", <<mem[Var("main", "heapStudent")].Name,
                                             mem[Var("main", "heapStudent")].Grade>>))
    \/ CallStmt(158, 73, "escapesToHeap2", NoFrame, mem)
    \/ CallStmt(160, 87, "escapesToHeap3", NoFrame, mem)
    \/ CallStmt(162, 96, "escapesToHeap4", NoFrame, mem)
    \/ PrintStmt(163, 165, Printed("main", mem[globalStudent]))
    \/ PrintStmt(165, 168, Printed("main", "--- Performance Impact ---"))
    \/ \* testStudents := []Student{...}
       /\ At(168)
       /\ LET m == make(arrs, ZeroStudent, Len(TestStudents), Len(TestStudents))
          IN  /\ arrs' = [m.arrs EXCEPT ![m.hdr.arr] = TestStudents]
              /\ locals' = SetVar(locals, "main", "testStudents", m.hdr)
       /\ pc' = 177
       /\ UNCHANGED <<mem, globalStudent, out, log>>
    \/ CallStmt(177, 112, "calculateAverageStacks",
                "students" :> Var("main", "testStudents"), mem)
    \/ CallStmt(178, 124, "calculateAverageHeaps",
                "students" :> Var("main", "testStudents"), mem)
    \/ PrintStmt(180, 181, Printed("main", Var("main", "stackAvg")))
    \/ PrintStmt(181, 183, Printed("main", Var("main", "heapAvg")))
    \/ PrintStmt(183, 184, Printed("main", "=== To See Escape Analysis ==="))
    \/ PrintStmt(184, 185, Printed("main", "Run: go build -gcflags='-m' examples/escape_analysis.go"))
    \/ PrintStmt(185, 186, Printed("main", "Look for output like:"))
    \/ PrintStmt(186, 187, Printed("main", "  'moved to heap: student'"))
    \/ PrintStmt(187, 188, Printed("main", "  '&student escapes to heap'"))
    \/ PrintStmt(188, 189, Printed("main", "This tells you which variables Go puts on the heap!"))

\* main has returned
Done == demo = "main" /\ pc = 189

MainInit ==
    /\ demo = "main"
    /\ pc = 143
    /\ globalStudent = NIL
    /\ locals = ("main" :> NoFrame)
    /\ log = <<>>
    /\ mem = [a \in {} |-> ZeroStudent]
    /\ arrs = NoArrays
    /\ ptr1 = NIL
    /\ ptr2 = NIL
    /\ grades = NilSlice
    /\ class = NilSlice
    /\ NoHistory

MainNext ==
    \/ Main
    \/ StaysOnStack1
    \/ StaysOnStack2
    \/ StaysOnStack3
    \/ ProcessStudent
    \/ EscapesToHeap1
    \/ EscapesToHeap2
    \/ EscapesToHeap3
    \/ EscapesToHeap4
    \/ CalculateAverageStacks
    \/ CalculateAverageHeaps

\* the program runs on its one goroutine until main returns
MainSpec == MainInit /\ [][MainNext]_vars /\ WF_vars(MainNext)

-----------------------------------------------------------------------------
(* Properties of the value, pointer and slice operations (under Spec)      *)

\* the pointer argument of the last call
Arg == call.ptrs[1]

ValueOps == {"modifyStudentValue", "processStudent", "createStudentCopy"}

\* C1: after modifyStudentValue(s), processStudent(s) or createStudentCopy(s,
\* newName, newID) returns, ID, Name, Grade and Age of the caller's s (and of
\* every other Student variable) are what they were before the call.
C1_CopyLeavesOriginal ==
    call.op \in ValueOps =>
        /\ DOMAIN mem = DOMAIN pre.mem
        /\ \A a \in DOMAIN mem :
              /\ mem[a].ID = pre.mem[a].ID
              /\ mem[a].Name = pre.mem[a].Name
              /\ mem[a].Grade = pre.mem[a].Grade
              /\ mem[a].Age = pre.mem[a].Age

\* modifyStudentValue printed a modified copy while the argument kept its grade
C1_Witness ==
    /\ call.op = "modifyStudentValue"
    /\ out[1].val.Grade = G(100)
    /\ out[1].val.Name = "Modified " \o mem[call.a].Name
    /\ mem[call.a].Grade # G(100)

\* C2: when ptr1 and ptr2 both refer to the Student the last pointer write
\* went to (modifyStudentPointer(&original) or ptr1.Grade = g), the values
\* read through original, *ptr1 and *ptr2 are the same in every field and
\* Grade is the value just written.
C2_SharedWriteSeenThroughEveryPointer ==
    (/\ call.op \in {"modifyStudentPointer", "assignViaPtr1"}
     /\ Arg # NIL
     /\ ptr1 = Arg
     /\ ptr2 = Arg) =>
        LET original == mem[Arg]
            written == IF call.op = "assignViaPtr1" THEN call.g ELSE G(100)
        IN  /\ mem[ptr1] = original
            /\ mem[ptr2] = original
            /\ original.Grade = written
            /\ mem[ptr1].Grade = written
            /\ mem[ptr2].Grade = written

\* modifyStudentPointer changed the grade of the Student both pointers refer to
C2_Witness ==
    /\ call.op = "modifyStudentPointer"
    /\ Arg # NIL
    /\ ptr1 = Arg
    /\ ptr2 = Arg
    /\ pre.mem[Arg].Grade # G(100)
    /\ mem[ptr2].Grade = G(100)

\* C3: modifyStudentPointer(nil) and updateGradeInPlace(nil, g) return without
\* changing any record and without printing; calculateGPAPointer returns 0.0
\* if any of its three arguments is nil and changes no record.
C3_NilGuardsReturnEarly ==
    /\ (call.op \in {"modifyStudentPointer", "updateGradeInPlace"} /\ Arg = NIL) =>
            /\ mem = pre.mem
            /\ out = <<>>
            /\ call.ret = NoValue
    /\ (call.op = "calculateGPAPointer" /\ \E i \in 1..3 : call.ptrs[i] = NIL) =>
            /\ call.ret = FloatZero
            /\ mem = pre.mem

\* calculateGPAPointer was called with exactly one nil among its arguments
C3_Witness ==
    /\ call.op = "calculateGPAPointer"
    /\ Cardinality({i \in 1..3 : call.ptrs[i] = NIL}) = 1
    /\ call.ret = FloatZero

\* C5: after modifyGradesSlice(grades) the caller's slice has the same length
\* and every element is its previous value plus 5.
C5_GradesGetBonusInPlace ==
    call.op = "modifyGradesSlice" =>
        LET now == Elems(arrs, grades)
        IN  /\ Len(now) = Len(pre.grades)
            /\ \A i \in 1..Len(now) : now[i] = pre.grades[i] + G(5)

\* modifyGradesSlice ran on a slice of at least two different grades
C5_Witness ==
    /\ call.op = "modifyGradesSlice"
    /\ Len(pre.grades) >= 2
    /\ pre.grades[1] # pre.grades[2]
    /\ Elems(arrs, grades)[2] = pre.grades[2] + G(5)

\* C6: addStudentToClass(&class, s) makes the caller's slice one longer, with
\* s last and the earlier elements unchanged and in order; the class always
\* holds what it started with followed by the students added, in the order
\* they were added (from a nil class, n calls give n students).
C6_ClassGrowsByOne ==
    /\ Elems(arrs, class) = inserted
    /\ call.op = "addStudentToClass" =>
          LET now == Elems(arrs, class)
          IN  /\ Len(now) = Len(pre.class) + 1
              /\ now[Len(now)] = inserted[Len(inserted)]
              /\ SubSeq(now, 1, Len(pre.class)) = pre.class

\* two successive calls on a nil class left the two students in insertion order
C6_Witness ==
    /\ call.op = "addStudentToClass"
    /\ ncalls = 2
    /\ Elems(arrs, class) = <<Student(2, "Diana", G(91), 20), Student(1, "Charlie", G(82), 19)>>

\* C7: createStudentCopy(template, newName, newID) returns Name = newName,
\* ID = newID and the template's Grade and Age.
C7_CopyReplacesNameAndID ==
    call.op = "createStudentCopy" =>
        /\ call.ret.Name = call.name
        /\ call.ret.ID = call.id
        /\ call.ret.Grade = pre.mem[call.a].Grade
        /\ call.ret.Age = pre.mem[call.a].Age

\* a copy was made whose name and ID differ from the template's
C7_Witness ==
    /\ call.op = "createStudentCopy"
    /\ call.ret.Name # pre.mem[call.a].Name
    /\ call.ret.ID # pre.mem[call.a].ID
    /\ call.ret.Grade = mem[call.a].Grade

\* C8: for a non-nil student, updateGradeInPlace(student, g) sets Grade to g
\* and leaves ID, Name and Age; modifyStudentPointer(student) sets Grade to
\* 100.0 and Name to "Modified " followed by the old Name and leaves ID and Age.
C8_FieldsIndependent ==
    /\ (call.op = "updateGradeInPlace" /\ Arg # NIL) =>
            /\ mem[Arg].Grade = call.g
            /\ mem[Arg].ID = pre.mem[Arg].ID
            /\ mem[Arg].Name = pre.mem[Arg].Name
            /\ mem[Arg].Age = pre.mem[Arg].Age
    /\ (call.op = "modifyStudentPointer" /\ Arg # NIL) =>
            /\ mem[Arg].Grade = G(100)
            /\ mem[Arg].Name = "Modified " \o pre.mem[Arg].Name
            /\ mem[Arg].ID = pre.mem[Arg].ID
            /\ mem[Arg].Age = pre.mem[Arg].Age

\* modifyStudentPointer ran on a student that had been modified before
C8_Witness ==
    /\ call.op = "modifyStudentPointer"
    /\ Arg # NIL
    /\ pre.mem[Arg].Grade # G(100)
    /\ mem[Arg].Name = "Modified Modified Bob"

\* the sum of the Grades of studs, accumulated in sequence order
RECURSIVE OrderedGradeSum(_)
OrderedGradeSum(studs) ==
    IF studs = <<>> THEN 0
    ELSE OrderedGradeSum(SubSeq(studs, 1, Len(studs) - 1)) + studs[Len(studs)].Grade

AverageOps == {"calculateAverageStack", "calculateAverageHeap", "calculateAverageOptimized",
               "calculateAverageStacks", "calculateAverageHeaps"}

\* C10: on a non-empty sequence of students the five averaging functions
\* return the same value, the sum of the Grades in sequence order divided by
\* the number of records, and leave the sequence as it was.
C10_AveragesAgree ==
    (call.op \in AverageOps /\ pre.class # <<>>) =>
        LET expected == FloatDiv(OrderedGradeSum(pre.class), Len(pre.class))
        IN  /\ call.ret = expected
            /\ calculateAverageStack(arrs, class) = expected
            /\ calculateAverageStacks(arrs, class) = expected
            /\ \A policy \in GrowthPolicies :
                  /\ calculateAverageHeap(arrs, class, policy) = expected
                  /\ calculateAverageOptimized(arrs, class, policy) = expected
                  /\ calculateAverageHeaps(arrs, class, policy) = expected
            /\ Elems(arrs, class) = pre.class

\* calculateAverageOptimized ran on three students with a fractional average
C10_Witness ==
    /\ call.op = "calculateAverageOptimized"
    /\ Len(pre.class) = 3
    /\ call.ret[2] = 3
    /\ call.ret = calculateAverageStack(arrs, class)

-----------------------------------------------------------------------------
(* Properties of the run of main (under MainSpec)                          *)

\* the demonstration calls of main, in program order
DemoOrder == <<"staysOnStack1", "staysOnStack2", "staysOnStack3", "escapesToHeap1",
               "escapesToHeap2", "escapesToHeap3", "escapesToHeap4",
               "calculateAverageStacks", "calculateAverageHeaps">>

Loops == {"range students in calculateAverageStacks",
          "range students in calculateAverageHeaps", "range grades"}

IsDemoCall(e) == \E k \in 1..Len(DemoOrder) : e.at = DemoOrder[k]
CallsOfMain == LET sel == SelectSeq(log, IsDemoCall)
               IN  [k \in 1..Len(sel) |-> sel[k].at]

\* the element indices loop has visited so far, in the order visited
Visited(loop) == LET IsIter(e) == e.at = loop
                     sel == SelectSeq(log, IsIter)
                 IN  [k \in 1..Len(sel) |-> sel[k].elem]

InProgramOrder ==
    /\ Len(CallsOfMain) <= Len(DemoOrder)
    /\ CallsOfMain = SubSeq(DemoOrder, 1, Len(CallsOfMain))

\* no element skipped, repeated or visited out of order
OncePerElement ==
    \A loop \in Loops : Visited(loop) = [k \in 1..Len(Visited(loop)) |-> k - 1]

RanToTheEnd ==
    /\ Done
    /\ CallsOfMain = DemoOrder
    /\ \A loop \in Loops : Len(Visited(loop)) = Len(TestStudents)

\* C4: main makes its demonstration calls (staysOnStack1..3, escapesToHeap1..4,
\* calculateAverageStacks, calculateAverageHeaps) in program order and
\* eventually reaches its end, every loop having run once per element of its
\* slice.
C4_MainRunsInOrderAndEnds ==
    /\ [](InProgramOrder /\ OncePerElement)
    /\ <>RanToTheEnd

\* main has returned with both averages computed over the five test students
C4_Witness ==
    /\ RanToTheEnd
    /\ Var("main", "stackAvg") = <<433, 5>>
    /\ Var("main", "heapAvg") = <<433, 5>>

GlobalWrites == LET IsWrite(e) == e.at = "write globalStudent"
                IN  Len(SelectSeq(log, IsWrite))

HasCalled(fn) == \E k \in 1..Len(log) : log[k] = Called(fn)
HasReturned(fn) == HasCalled(fn) /\ fn \notin DOMAIN locals

\* C9: globalStudent is nil in every state before escapesToHeap4 executes;
\* from the return of escapesToHeap4 on it refers to the record {ID 6, Name
\* "Frank", Grade 82.0, Age 23}; it is written once in a run of main, and
\* only by escapesToHeap4.
C9_GlobalWrittenOnce ==
    /\ [](~HasCalled("escapesToHeap4") => globalStudent = NIL /\ GlobalWrites = 0)
    /\ [](HasReturned("escapesToHeap4") =>
            /\ globalStudent # NIL
            /\ globalStudent \in DOMAIN mem
            /\ mem[globalStudent] = Student(6, "Frank", G(82), 23)
            /\ GlobalWrites = 1)
    /\ [][globalStudent' # globalStudent =>
            /\ "escapesToHeap4" \in DOMAIN locals
            /\ globalStudent = NIL]_vars

\* main has returned and the global still refers to Frank's record, whose
\* variable outlived the call that declared it
C9_Witness ==
    /\ Done
    /\ globalStudent # NIL
    /\ HasReturned("escapesToHeap4")
    /\ mem[globalStudent].Name = "Frank"

====
